---- MODULE Spec2Model ----
(***************************************************************************)
(* Model of src/components/BaziForm.tsx: the BaziForm component's state    *)
(* (formData, the isLoading prop, the memoised luck-direction text) and    *)
(* its handlers handleChange, the gender buttons, calculateBaZi and        *)
(* handleSubmit.                                                           *)
(*                                                                         *)
(* Text is modelled as a sequence of characters.  A character is a short   *)
(* ASCII name: a digit is itself, "SP" is U+0020, "IDSP" is U+3000, and    *)
(* the ten heavenly stems are named by their pinyin:                       *)
(*   jia U+7532  yi U+4E59  bing U+4E19  ding U+4E01  wu U+620A            *)
(*   ji  U+5DF1  geng U+5E9A xin U+8F9B  ren  U+58EC  gui U+7678           *)
(* Earthly branches carry a "b_" prefix (b_zi, b_chou, ...).               *)
(***************************************************************************)
EXTENDS Integers, Sequences, FiniteSets

VARIABLES formData, isLoading, memoDeps, daYunDirectionInfo,
          lastOp, alertMsg, bridgeCalls, onSubmitCalls

vars == <<formData, isLoading, memoDeps, daYunDirectionInfo,
          lastOp, alertMsg, bridgeCalls, onSubmitCalls>>

\* ------------------------------------------------------------------ bounds
\* Longest decade-luck array the Calendar Bridge hands back in the model.
MaxDaYunLen == 2

\* ------------------------------------------------------------ text helpers
EMPTY == << >>

MALE == "Male"

FEMALE == "Female"

Genders == {MALE, FEMALE}

\* Characters String.prototype.trim strips (two representatives).
WhiteSpace == {"SP", "IDSP"}

Digits == <<"0", "1", "2", "3", "4", "5", "6", "7", "8", "9">>

RECURSIVE TrimStart(_)
TrimStart(s) ==
    IF s # EMPTY /\ Head(s) \in WhiteSpace THEN TrimStart(Tail(s)) ELSE s

RECURSIVE TrimEnd(_)
TrimEnd(s) ==
    IF s # EMPTY /\ s[Len(s)] \in WhiteSpace
    THEN TrimEnd(SubSeq(s, 1, Len(s) - 1))
    ELSE s

\* String.prototype.trim
Trim(s) == TrimEnd(TrimStart(s))

\* String.prototype.charAt(0): the first character, or "" past the end.
CharAt0(s) == IF s = EMPTY THEN "" ELSE s[1]

\* JavaScript truthiness of a string: only "" is falsy.
Falsy(s) == s = EMPTY

IsDigit(c) == \E i \in 1..10 : Digits[i] = c

DigitVal(c) == (CHOOSE i \in 1..10 : Digits[i] = c) - 1

RECURSIVE DigitPrefixLen(_)
DigitPrefixLen(s) ==
    IF s # EMPTY /\ IsDigit(Head(s)) THEN 1 + DigitPrefixLen(Tail(s)) ELSE 0

RECURSIVE DigitsValue(_)
DigitsValue(s) ==
    IF s = EMPTY THEN 0
    ELSE 10 * DigitsValue(SubSeq(s, 1, Len(s) - 1)) + DigitVal(s[Len(s)])

NaN == "NaN"

\* parseInt(string): leading white space, an optional sign, then the longest
\* run of decimal digits; NaN when there is none.
ParseInt(s) ==
    LET t == TrimStart(s)
        signed == t # EMPTY /\ Head(t) \in {"-", "+"}
        u == IF signed THEN Tail(t) ELSE t
        n == DigitPrefixLen(u)
    IN  IF n = 0 THEN NaN
        ELSE IF signed /\ Head(t) = "-" THEN 0 - DigitsValue(SubSeq(u, 1, n))
        ELSE DigitsValue(SubSeq(u, 1, n))

RECURSIVE NatToString(_)
NatToString(n) ==
    IF n < 10 THEN <<Digits[n + 1]>>
    ELSE NatToString(n \div 10) \o <<Digits[(n % 10) + 1]>>

\* Number.prototype.toString for an integer.
NumberToString(n) == IF n < 0 THEN <<"-">> \o NatToString(0 - n) ELSE NatToString(n)

\* ------------------------------------------------------------ the record
Fields == {"name", "gender", "birthYear", "birthMonth", "birthDay", "birthHour",
           "yearPillar", "monthPillar", "dayPillar", "hourPillar",
           "startAge", "firstDaYun"}

InitialFormData ==
    [name |-> EMPTY, gender |-> MALE,
     birthYear |-> EMPTY, birthMonth |-> EMPTY,
     birthDay |-> EMPTY, birthHour |-> EMPTY,
     yearPillar |-> EMPTY, monthPillar |-> EMPTY,
     dayPillar |-> EMPTY, hourPillar |-> EMPTY,
     startAge |-> EMPTY, firstDaYun |-> EMPTY]

\* The six fields a derivation writes.
DerivedFields == {"yearPillar", "monthPillar", "dayPillar", "hourPillar",
                  "startAge", "firstDaYun"}

\* ------------------------------------------------- Luck-Direction Resolver
AWAITING == "awaiting"

FORWARD == "forward"

BACKWARD == "backward"

\* The Yin list with U+620A (wu) in the place of the look-alike U+5DF1 (ji).
yinStemsTypo == {"yi", "ding", "wu", "xin", "gui"}

yinStems == {"yi", "ding", "ji", "xin", "gui"}

\* The callback handed to useMemo.
DirectionInfo(fd) ==
    IF Falsy(fd.yearPillar) THEN AWAITING
    ELSE LET firstChar == CharAt0(Trim(fd.yearPillar))
             isYangYear == ~(firstChar \in yinStems)
             isForward == IF fd.gender = MALE THEN isYangYear ELSE ~isYangYear
         IN  IF isForward THEN FORWARD ELSE BACKWARD

\* A dependency list that forgets the gender.
MemoDepsYearOnly(fd) == <<fd.yearPillar>>

\* The dependency list handed to useMemo.
MemoDeps(fd) == <<fd.yearPillar, fd.gender>>

\* useMemo on a render with state fd: the cached value is kept when the
\* dependencies are unchanged and recomputed otherwise.
UseMemoValue(fd) ==
    IF MemoDeps(fd) = memoDeps THEN daYunDirectionInfo ELSE DirectionInfo(fd)

\* The render React runs after a handler has changed state or props.
Render(fd) ==
    /\ daYunDirectionInfo' = UseMemoValue(fd)
    /\ memoDeps' = MemoDeps(fd)

\* --------------------------------------------------------- Calendar Bridge
\* The lunar-javascript library is an external collaborator: what it returns
\* (or where it throws) is chosen by the environment.
PillarsA == << <<"geng", "b_wu">>, <<"xin", "b_si">>,
               <<"bing", "b_zi">>, <<"jia", "b_wu">> >>

PillarsB == << <<"yi", "b_chou">>, <<"xin", "b_si">>,
               <<"bing", "b_zi">>, <<"jia", "b_wu">> >>

PillarSets == {PillarsA, PillarsB}

\* Decade-luck objects: what getStartAge() and getGanZhi() return.
DaYunObjs == {[startAge |-> 1, ganZhi |-> EMPTY],
              [startAge |-> 10, ganZhi |-> <<"ding", "b_mao">>]}

RECURSIVE SeqsUpTo(_, _)
SeqsUpTo(S, n) ==
    IF n = 0 THEN {<< >>}
    ELSE LET shorter == SeqsUpTo(S, n - 1)
         IN  shorter \cup {Append(a, x) : a \in shorter, x \in S}

DaYunArrs == SeqsUpTo(DaYunObjs, MaxDaYunLen)

NoPillars == << >>

\* failAt names the bridge step that throws: the solar / lunar / eight-char
\* conversion ("pillars"), getYun, getDaYun, or reading the index-1 entry
\* ("entry": getGanZhi, getStartAge or toString on daYunArr[1]).
BridgeOutcomes ==
    {[failAt |-> "pillars", pillars |-> NoPillars, daYunArr |-> << >>]}
    \cup {[failAt |-> f, pillars |-> p, daYunArr |-> << >>] :
             f \in {"getYun", "getDaYun"}, p \in PillarSets}
    \cup {[failAt |-> "none", pillars |-> p, daYunArr |-> a] :
             p \in PillarSets, a \in DaYunArrs}
    \cup {[failAt |-> "entry", pillars |-> p, daYunArr |-> a] :
             p \in PillarSets, a \in {b \in DaYunArrs : Len(b) > 1}}

\* JavaScript arrays count from 0.
At(arr, i) == arr[i + 1]

\* ------------------------------------------------------------- user input
\* What the user types into each input (e.target.value); the number inputs
\* only ever report "" or a numeric string.  The day and hour pillar inputs
\* are left untouched by the modelled user: they go through the same
\* handleChange as the month pillar input.
InputValues(name) ==
    CASE name = "name" -> {EMPTY, <<"A">>}
      [] name = "birthYear" -> {EMPTY, <<"1", "9", "9", "0">>}
      [] name = "birthMonth" -> {EMPTY, <<"5">>}
      [] name = "birthDay" -> {EMPTY, <<"1", "5">>}
      [] name = "birthHour" -> {EMPTY, <<"0">>}
      [] name = "yearPillar" -> {EMPTY, <<"SP", "yi", "b_chou">>}
      [] name = "monthPillar" -> {EMPTY}
      [] name = "dayPillar" -> {}
      [] name = "hourPillar" -> {}
      [] name = "startAge" -> {EMPTY}
      [] name = "firstDaYun" -> {EMPTY, <<"X">>}

\* The inputs wired to handleChange (gender has its own two buttons).
InputNames == Fields \ {"gender"}

\* Notifications (alert) a handler can raise.
NoAlert == "none"

AlertMissing == "missing-birth-fields"

AlertAnomaly == "dayun-anomaly"

AlertFailed == "calculation-failed"

AlertBlocked == "chart-incomplete"

\* ------------------------------------------------------------ handleChange
\* An edit that also wipes the derived chart when a birth field is retyped.
ApplyChangeClearsChart(prev, name, value) ==
    IF name \in {"birthYear", "birthMonth", "birthDay", "birthHour"}
    THEN [f \in Fields |->
             IF f = name THEN value
             ELSE IF f \in DerivedFields THEN EMPTY ELSE prev[f]]
    ELSE [prev EXCEPT ![name] = value]

\* setFormData((prev) => ({ ...prev, [name]: value }))
ApplyChange(prev, name, value) == [prev EXCEPT ![name] = value]

HandleChange(name, value) ==
    /\ formData' = ApplyChange(formData, name, value)
    /\ Render(formData')
    /\ lastOp' = "edit"
    /\ alertMsg' = NoAlert
    /\ bridgeCalls' = << >>
    /\ onSubmitCalls' = << >>
    /\ UNCHANGED isLoading

\* ---------------------------------------------------------- gender buttons
\* setFormData({ ...formData, gender }): formData is the state of the render
\* the click happened in, which is the current state (a click is flushed and
\* re-rendered before the next event is handled).
ApplyGender(rendered, g) == [rendered EXCEPT !.gender = g]

GenderClick(g) ==
    /\ formData' = ApplyGender(formData, g)
    /\ Render(formData')
    /\ lastOp' = "edit"
    /\ alertMsg' = NoAlert
    /\ bridgeCalls' = << >>
    /\ onSubmitCalls' = << >>
    /\ UNCHANGED isLoading

\* ----------------------------------------------------------- calculateBaZi
\* A presence check that tests the parsed hour, so that hour 0 counts as
\* missing.
MissingBirthFieldZeroHour(fd) ==
    \/ Falsy(fd.birthYear)
    \/ Falsy(fd.birthMonth)
    \/ Falsy(fd.birthDay)
    \/ Falsy(fd.birthHour)
    \/ ParseInt(fd.birthHour) = 0

\* The presence check that opens calculateBaZi.
MissingBirthField(fd) ==
    \/ Falsy(fd.birthYear)
    \/ Falsy(fd.birthMonth)
    \/ Falsy(fd.birthDay)
    \/ fd.birthHour = EMPTY

\* Gender: 1 for Male, 0 for Female in lunar-javascript.
GenderNum(g) == IF g = MALE THEN 1 ELSE 0

\* The record of one use of the bridge: the arguments of Solar.fromYmdHms
\* and getYun, and what the bridge did with them.
BridgeCall(fd, o) ==
    [year |-> ParseInt(fd.birthYear), month |-> ParseInt(fd.birthMonth),
     day |-> ParseInt(fd.birthDay), hour |-> ParseInt(fd.birthHour),
     genderNum |-> GenderNum(fd.gender),
     failAt |-> o.failAt, pillars |-> o.pillars, daYunArr |-> o.daYunArr]

\* Taking the head of the array as the first decade.
FirstDaYunObjIndexZero(daYunArr) == At(daYunArr, 0)

\* Index 1 is the first formal decade (index 0 is the child limit).
FirstDaYunObj(daYunArr) == At(daYunArr, 1)

\* An update that writes the pillars and forgets the decade fields.
MergeFirstDaYunPartial(prev, pillars, firstDaYunObj) ==
    [prev EXCEPT !.yearPillar = pillars[1],
                 !.monthPillar = pillars[2],
                 !.dayPillar = pillars[3],
                 !.hourPillar = pillars[4]]

\* The update of the daYunArr.length > 1 branch.
MergeFirstDaYun(prev, pillars, firstDaYunObj) ==
    [prev EXCEPT !.yearPillar = pillars[1],
                 !.monthPillar = pillars[2],
                 !.dayPillar = pillars[3],
                 !.hourPillar = pillars[4],
                 !.startAge = NumberToString(firstDaYunObj.startAge),
                 !.firstDaYun = firstDaYunObj.ganZhi]

\* A fallback that leaves the decade fields as they were.
MergeFallbackKeepsDecade(prev, pillars) ==
    [prev EXCEPT !.yearPillar = pillars[1],
                 !.monthPillar = pillars[2],
                 !.dayPillar = pillars[3],
                 !.hourPillar = pillars[4]]

\* The update of the else branch.
MergeFallback(prev, pillars) ==
    [prev EXCEPT !.yearPillar = pillars[1],
                 !.monthPillar = pillars[2],
                 !.dayPillar = pillars[3],
                 !.hourPillar = pillars[4],
                 !.startAge = <<"1">>,
                 !.firstDaYun = EMPTY]

\* A try block that stores the pillars as soon as they are computed, before
\* the decade-luck calls.
TryBlockEarlyPillars(prev, o) ==
    IF o.failAt = "pillars" THEN prev
    ELSE IF o.failAt # "none"
         THEN [prev EXCEPT !.yearPillar = o.pillars[1],
                           !.monthPillar = o.pillars[2],
                           !.dayPillar = o.pillars[3],
                           !.hourPillar = o.pillars[4]]
    ELSE IF Len(o.daYunArr) > 1
         THEN MergeFirstDaYun(prev, o.pillars, FirstDaYunObj(o.daYunArr))
         ELSE MergeFallback(prev, o.pillars)

\* formData after the try block ran against bridge outcome o: a throw
\* anywhere lands in the catch clause before any setFormData.
TryBlock(prev, o) ==
    IF o.failAt # "none" THEN prev
    ELSE IF Len(o.daYunArr) > 1
         THEN MergeFirstDaYun(prev, o.pillars, FirstDaYunObj(o.daYunArr))
         ELSE MergeFallback(prev, o.pillars)

\* The alert the try / catch raises for outcome o.
TryAlert(o) ==
    IF o.failAt # "none" THEN AlertFailed
    ELSE IF Len(o.daYunArr) > 1 THEN NoAlert ELSE AlertAnomaly

\* The calculate button is a plain type="button" with no disabled attribute.
CalculateEnabled == TRUE

CalculateBaZi ==
    /\ CalculateEnabled
    /\ lastOp' = "calculateBaZi"
    /\ onSubmitCalls' = << >>
    /\ UNCHANGED isLoading
    /\ IF MissingBirthField(formData)
       THEN /\ alertMsg' = AlertMissing
            /\ bridgeCalls' = << >>
            /\ UNCHANGED <<formData, memoDeps, daYunDirectionInfo>>
       ELSE \E o \in BridgeOutcomes :
               /\ bridgeCalls' = <<BridgeCall(formData, o)>>
               /\ formData' = TryBlock(formData, o)
               /\ alertMsg' = TryAlert(o)
               /\ Render(formData')

\* ------------------------------------------------------------ handleSubmit
\* A guard that refuses only when both fields are empty.
SubmitBlockedBoth(fd) == Falsy(fd.yearPillar) /\ Falsy(fd.firstDaYun)

\* The guard that opens handleSubmit.
SubmitBlocked(fd) == Falsy(fd.yearPillar) \/ Falsy(fd.firstDaYun)

\* A submit button without the disabled attribute.
SubmitNeverDisabled == FALSE

\* The submit button carries disabled={isLoading}; a submit event reaches
\* the form only through that button (a click, or the implicit submission
\* of the Enter key, which goes through the form's default button).
SubmitDisabled == isLoading

\* The host's onSubmit callback raises its in-flight flag, which comes back
\* as the isLoading prop.
HostOnSubmit(data) == TRUE

\* The browser's own validation of the required / min / max attributes is
\* not modelled: handleSubmit may be reached with any field values, which
\* includes every submit the browser lets through.
HandleSubmit ==
    /\ ~SubmitDisabled
    /\ lastOp' = "handleSubmit"
    /\ bridgeCalls' = << >>
    /\ UNCHANGED formData
    /\ IF SubmitBlocked(formData)
       THEN /\ alertMsg' = AlertBlocked
            /\ onSubmitCalls' = << >>
            /\ UNCHANGED <<isLoading, memoDeps, daYunDirectionInfo>>
       ELSE /\ alertMsg' = NoAlert
            /\ onSubmitCalls' = <<formData>>
            /\ isLoading' = HostOnSubmit(formData)
            /\ Render(formData)

\* The consumer finishes and the host clears the flag.
HostComplete ==
    /\ isLoading
    /\ isLoading' = FALSE
    /\ Render(formData)
    /\ lastOp' = "hostComplete"
    /\ alertMsg' = NoAlert
    /\ bridgeCalls' = << >>
    /\ onSubmitCalls' = << >>
    /\ UNCHANGED formData

\* ------------------------------------------------------------ the machine
Init ==
    /\ formData = InitialFormData
    /\ isLoading = FALSE
    /\ memoDeps = MemoDeps(InitialFormData)
    /\ daYunDirectionInfo = DirectionInfo(InitialFormData)
    /\ lastOp = "mount"
    /\ alertMsg = NoAlert
    /\ bridgeCalls = << >>
    /\ onSubmitCalls = << >>

Next ==
    \/ \E name \in InputNames : \E value \in InputValues(name) :
          HandleChange(name, value)
    \/ \E g \in Genders : GenderClick(g)
    \/ CalculateBaZi
    \/ HandleSubmit
    \/ HostComplete

Spec == Init /\ [][Next]_vars

\* ------------------------------------------- the resolver on its own inputs
\* A second machine for the Luck-Direction Resolver as a pure function: the
\* component holds some year pillar and gender, and a render applies the
\* resolver to them.
Stems == {"jia", "yi", "bing", "ding", "wu", "ji", "geng", "xin", "ren", "gui"}

DirPillars ==
    {EMPTY, <<"SP">>, <<"X", "b_zi">>, <<"b_zi">>}
    \cup {<<st, "b_zi">> : st \in Stems}
    \cup {<<"SP", st, "b_zi">> : st \in Stems}
    \cup {<<st, "b_zi", "IDSP">> : st \in Stems}

InitDir ==
    /\ formData \in {[InitialFormData EXCEPT !.yearPillar = yp, !.gender = g] :
                        yp \in DirPillars, g \in Genders}
    /\ isLoading = FALSE
    /\ memoDeps = MemoDeps(InitialFormData)
    /\ daYunDirectionInfo = DirectionInfo(InitialFormData)
    /\ lastOp = "mount"
    /\ alertMsg = NoAlert
    /\ bridgeCalls = << >>
    /\ onSubmitCalls = << >>

RenderDir ==
    /\ lastOp = "mount"
    /\ Render(formData)
    /\ lastOp' = "render"
    /\ UNCHANGED <<formData, isLoading, alertMsg, bridgeCalls, onSubmitCalls>>

NextDir == RenderDir

SpecDir == InitDir /\ [][NextDir]_vars

\* ================================================================== claims
\* Shorthands for "the step just taken was ..." in the formulas below.
CalcCalledBridge == lastOp' = "calculateBaZi" /\ bridgeCalls' # << >>

SixUnchanged == \A f \in DerivedFields : formData'[f] = formData[f]

\* C1: a submit invokes onSubmit only if yearPillar and firstDaYun are both
\* non-empty at that moment; when either is empty, onSubmit is not invoked,
\* the chart-incomplete notification is raised and formData is unchanged.
C1_SubmitGuard ==
    [][lastOp' = "handleSubmit" =>
          /\ onSubmitCalls' # << >> =>
                formData.yearPillar # EMPTY /\ formData.firstDaYun # EMPTY
          /\ (formData.yearPillar = EMPTY \/ formData.firstDaYun = EMPTY) =>
                /\ onSubmitCalls' = << >>
                /\ alertMsg' = AlertBlocked
                /\ formData' = formData]_vars

\* A submit was refused with yearPillar set and firstDaYun empty.
C1_Witness ==
    /\ lastOp = "handleSubmit"
    /\ alertMsg = AlertBlocked
    /\ onSubmitCalls = << >>
    /\ formData.yearPillar # EMPTY
    /\ formData.firstDaYun = EMPTY

\* C2: when any bridge step of a derivation throws, the six pillar / decade
\* fields keep the values they had before the attempt and the failure
\* notification is raised.
C2_FailureKeepsFields ==
    [][(CalcCalledBridge /\ bridgeCalls'[1].failAt # "none") =>
          SixUnchanged /\ alertMsg' = AlertFailed]_vars

\* getYun threw after the pillars had been computed, over a record holding a
\* hand-edited year pillar and a previously derived first decade.
C2_Witness ==
    /\ lastOp = "calculateBaZi"
    /\ Len(bridgeCalls) = 1
    /\ bridgeCalls[1].failAt = "getYun"
    /\ formData.yearPillar = <<"SP", "yi", "b_chou">>
    /\ formData.firstDaYun = <<"ding", "b_mao">>
    /\ formData.yearPillar # bridgeCalls[1].pillars[1]

\* C3: a derivation whose decade array is longer than 1 writes, in its one
\* step, the four bridge pillars and the start age and gan-zhi of the
\* index-1 entry into the six fields, and leaves the other fields alone.
C3_SuccessWritesIndexOne ==
    [][(/\ CalcCalledBridge
        /\ bridgeCalls'[1].failAt = "none"
        /\ Len(bridgeCalls'[1].daYunArr) > 1) =>
          LET call == bridgeCalls'[1]
              entry1 == call.daYunArr[2]
          IN  /\ formData'.yearPillar = call.pillars[1]
              /\ formData'.monthPillar = call.pillars[2]
              /\ formData'.dayPillar = call.pillars[3]
              /\ formData'.hourPillar = call.pillars[4]
              /\ formData'.startAge = NumberToString(entry1.startAge)
              /\ formData'.firstDaYun = entry1.ganZhi
              /\ \A f \in Fields \ DerivedFields : formData'[f] = formData[f]]_vars

\* A derivation succeeded with index-0 and index-1 entries that differ, and
\* the record shows the index-1 entry.
C3_Witness ==
    /\ lastOp = "calculateBaZi"
    /\ Len(bridgeCalls) = 1
    /\ bridgeCalls[1].failAt = "none"
    /\ Len(bridgeCalls[1].daYunArr) > 1
    /\ bridgeCalls[1].daYunArr[1] # bridgeCalls[1].daYunArr[2]
    /\ formData.firstDaYun = bridgeCalls[1].daYunArr[2].ganZhi
    /\ formData.startAge = <<"1", "0">>
    /\ formData.name # EMPTY

\* C4: when the pillars convert but the decade array has length 0 or 1, the
\* derivation writes the four bridge pillars, startAge "1" and an empty
\* firstDaYun in one step and raises the decade-anomaly notification.
C4_ShortSequenceFallback ==
    [][(/\ CalcCalledBridge
        /\ bridgeCalls'[1].failAt = "none"
        /\ Len(bridgeCalls'[1].daYunArr) <= 1) =>
          LET call == bridgeCalls'[1]
          IN  /\ formData' = [formData EXCEPT
                                 !.yearPillar = call.pillars[1],
                                 !.monthPillar = call.pillars[2],
                                 !.dayPillar = call.pillars[3],
                                 !.hourPillar = call.pillars[4],
                                 !.startAge = <<"1">>,
                                 !.firstDaYun = EMPTY]
              /\ alertMsg' = AlertAnomaly]_vars

\* The bridge returned a one-entry array whose only entry is not the
\* fallback, and the record holds the fallback.
C4_Witness ==
    /\ lastOp = "calculateBaZi"
    /\ Len(bridgeCalls) = 1
    /\ bridgeCalls[1].failAt = "none"
    /\ Len(bridgeCalls[1].daYunArr) = 1
    /\ bridgeCalls[1].daYunArr[1].startAge = 10
    /\ formData.startAge = <<"1">>
    /\ formData.firstDaYun = EMPTY
    /\ formData.yearPillar = bridgeCalls[1].pillars[1]
    /\ alertMsg = AlertAnomaly

\* The direction rule of the claims: Forward iff (Male and Yang) or (Female
\* and Yin), for a stem character c that is Yin iff it is one of the five.
RuleDirection(c, gender) ==
    LET yin == c \in {"yi", "ding", "ji", "xin", "gui"}
    IN  IF (gender = MALE /\ ~yin) \/ (gender = FEMALE /\ yin)
        THEN FORWARD ELSE BACKWARD

\* C5 (as stated): for a non-empty yearPillar the resolver applies the
\* direction rule to the FIRST character of yearPillar.
C5_StemIsFirstCharacter ==
    (lastOp = "render" /\ formData.yearPillar # EMPTY) =>
        daYunDirectionInfo = RuleDirection(formData.yearPillar[1], formData.gender)

\* C5 (amended): for a non-empty yearPillar the resolver applies the
\* direction rule to the first character that is left after white space is
\* trimmed from both ends of yearPillar (Yang when nothing is left).
C5_StemIsFirstTrimmedCharacter ==
    (lastOp = "render" /\ formData.yearPillar # EMPTY) =>
        LET t == Trim(formData.yearPillar)
            c == IF t = EMPTY THEN "" ELSE t[1]
        IN  daYunDirectionInfo = RuleDirection(c, formData.gender)

\* A year pillar typed with a leading space before a Yin stem, Male.
C5_Witness ==
    /\ lastOp = "render"
    /\ formData.yearPillar = <<"SP", "gui", "b_zi">>
    /\ formData.gender = MALE
    /\ daYunDirectionInfo = BACKWARD

\* C6: the displayed direction is always the resolver's value for the
\* current yearPillar and gender, and it is "awaiting" exactly when the
\* current yearPillar is empty.
C6_DirectionIsCurrent ==
    /\ daYunDirectionInfo = DirectionInfo(formData)
    /\ (daYunDirectionInfo = AWAITING) <=> (formData.yearPillar = EMPTY)

\* The gender was toggled after a derivation had written a Yang year pillar.
C6_Witness ==
    /\ lastOp = "edit"
    /\ formData.yearPillar = <<"geng", "b_wu">>
    /\ formData.gender = FEMALE
    /\ daYunDirectionInfo = BACKWARD

\* C7: no step invokes onSubmit while the loading flag is true.
C7_NoSubmitWhileLoading ==
    [][onSubmitCalls' # << >> => ~isLoading]_vars

\* A submission is in flight and the record would still pass the guard.
C7_Witness ==
    /\ isLoading
    /\ formData.yearPillar # EMPTY
    /\ formData.firstDaYun # EMPTY
    /\ lastOp = "handleSubmit"
    /\ onSubmitCalls = <<formData>>

\* C8 (as stated): while the loading flag is true no derivation changes the
\* six pillar / decade fields.
C8_NoDerivationWhileLoading ==
    [][(isLoading /\ lastOp' = "calculateBaZi") => SixUnchanged]_vars

\* C8 (amended): the loading flag does not gate derivations; a derivation
\* taken while it is true leaves the flag and onSubmit alone and is all or
\* nothing: it either leaves the six fields as they were or writes all four
\* bridge pillars together with a decade entry (the index-1 entry or the
\* fallback).
C8_DerivationWhileLoadingIsAtomic ==
    [][(isLoading /\ lastOp' = "calculateBaZi") =>
          /\ isLoading'
          /\ onSubmitCalls' = << >>
          /\ \/ formData' = formData
             \/ /\ bridgeCalls' # << >>
                /\ bridgeCalls'[1].failAt = "none"
                /\ LET call == bridgeCalls'[1]
                   IN  /\ formData'.yearPillar = call.pillars[1]
                       /\ formData'.monthPillar = call.pillars[2]
                       /\ formData'.dayPillar = call.pillars[3]
                       /\ formData'.hourPillar = call.pillars[4]
                       /\ IF Len(call.daYunArr) > 1
                          THEN /\ formData'.startAge =
                                     NumberToString(call.daYunArr[2].startAge)
                               /\ formData'.firstDaYun = call.daYunArr[2].ganZhi
                          ELSE /\ formData'.startAge = <<"1">>
                               /\ formData'.firstDaYun = EMPTY]_vars

\* A derivation ran to success while a submission was in flight.
C8_Witness ==
    /\ isLoading
    /\ lastOp = "calculateBaZi"
    /\ Len(bridgeCalls) = 1
    /\ bridgeCalls[1].failAt = "none"
    /\ formData.yearPillar = bridgeCalls[1].pillars[1]

\* C9: a derivation request with an empty birth field raises the
\* missing-field notification, does not call the bridge and changes no
\* field; a request with four non-empty birth fields calls the bridge.
C9_PresenceCheck ==
    [][lastOp' = "calculateBaZi" =>
          IF \E f \in {"birthYear", "birthMonth", "birthDay", "birthHour"} :
                formData[f] = EMPTY
          THEN /\ alertMsg' = AlertMissing
               /\ bridgeCalls' = << >>
               /\ formData' = formData
          ELSE /\ bridgeCalls' # << >>
               /\ alertMsg' # AlertMissing]_vars

\* Birth hour "0" passed the check and reached the bridge as hour 0.
C9_Witness ==
    /\ lastOp = "calculateBaZi"
    /\ formData.birthHour = <<"0">>
    /\ Len(bridgeCalls) = 1
    /\ bridgeCalls[1].hour = 0
    /\ bridgeCalls[1].year = 1990

\* C10: a user edit overwrites exactly the named field with the entered
\* value, leaves every other field unchanged, and calls neither the bridge
\* nor onSubmit.
C10_EditWritesOneField ==
    [][/\ \A name \in InputNames : \A value \in InputValues(name) :
             HandleChange(name, value) =>
                /\ formData'[name] = value
                /\ \A f \in Fields \ {name} : formData'[f] = formData[f]
       /\ \A g \in Genders :
             GenderClick(g) =>
                /\ formData'.gender = g
                /\ \A f \in Fields \ {"gender"} : formData'[f] = formData[f]
       /\ lastOp' = "edit" =>
             /\ bridgeCalls' = << >>
             /\ onSubmitCalls' = << >>
             /\ alertMsg' = NoAlert
             /\ isLoading' = isLoading]_vars

\* The first decade was hand-edited over a derived chart; the other derived
\* fields still hold what the derivation wrote.
C10_Witness ==
    /\ lastOp = "edit"
    /\ formData.firstDaYun = <<"X">>
    /\ formData.yearPillar = <<"geng", "b_wu">>
    /\ formData.dayPillar = <<"bing", "b_zi">>
    /\ formData.startAge = <<"1", "0">>

====
